---- MODULE Spec2Model ----
(***************************************************************************)
(* A model of the commandspec / sh-inline crate: the argument renderer     *)
(* (CommandArg and its Display impl), the script-spec parser (commandify / *)
(* impl_commandify), the process-descriptor builder (CommandSpec::         *)
(* to_command) and the execution wrapper (CommandSpecExt::execute).        *)
(*                                                                         *)
(* Text is modelled as a sequence of one-character strings, so that        *)
(* quoting, trimming, line splitting and tokenizing are computed character *)
(* by character as the code computes them.                                 *)
(***************************************************************************)
EXTENDS Integers, Sequences, FiniteSets, TLC

VARIABLES
    pc,             \* position in the pipeline
    path,           \* the bytes of the Path handed to CommandArg::from
    shell_word,     \* what a shell reads from the rendered $'...' literal
    arg,            \* the CommandArg being rendered (renderer specifications)
    template,       \* the template the rendered value is interpolated into
    rendered,       \* format!("{}", arg)
    tokens,         \* shlex::split(rendered): <<>> for None, <<toks>> for Some
    value,          \* the spec text handed to commandify
    lines,          \* value.trim().split('\n')
    idx,            \* index of the next line the loop will look at
    state,          \* SpecState: "Cd", "Env", "Cmd"
    cd,             \* Option<String>: <<>> or <<dir>>
    env,            \* HashMap<String, String> as a set of <<name, value>>
    command_lines,  \* Vec<String>
    spec,           \* Option<CommandSpec>: <<>> or <<[binary, args, env, cd]>>
    result,         \* what commandify gave its caller
    command,        \* Option<Command>: <<>> or <<[program, args, cwd, env]>>
    fs,             \* whether canonicalize() of the cd directory succeeds
    child,          \* what the operating system does with the child
    spawns,         \* number of processes execute has started
    outcome         \* what execute returned

vars == <<pc, path, shell_word, arg, template, rendered, tokens, value,
          lines, idx, state, cd, env, command_lines, spec, result, command,
          fs, child, spawns, outcome>>

---------------------------------------------------------------------------
(* Characters *)

SP == " "
NL == "\n"
BS == "\\"
SQ == "'"
DQ == "\""
DOLLAR == "$"
\* the backtick, which a TLA+ string cannot hold
BQ == "<backtick>"
HASH == "#"
EQC == "="

\* char::is_whitespace, restricted to the characters the model uses
IsWhite(c) == c \in {SP, NL}

---------------------------------------------------------------------------
(* Bounds *)

MaxStrLen == 3      \* longest Literal string rendered
MaxListLen == 2     \* longest List rendered
MaxElemLen == 1     \* longest element of a rendered List
MaxLines == 3       \* most lines of a spec text
MaxPathLen == 2     \* longest path drawn from ByteAlphabet

---------------------------------------------------------------------------
(* Generic string helpers (std) *)

RECURSIVE Concat(_)
\* [String]::concat
Concat(ss) == IF ss = <<>> THEN <<>> ELSE Head(ss) \o Concat(Tail(ss))

RECURSIVE Join(_, _)
\* [String]::join(sep)
Join(ss, sep) ==
    IF ss = <<>> THEN <<>>
    ELSE IF Len(ss) = 1 THEN ss[1]
    ELSE ss[1] \o sep \o Join(Tail(ss), sep)

\* the k-th smallest member of a set of numbers
Nth(S, k) == CHOOSE i \in S : Cardinality({j \in S : j <= i}) = k

\* the characters of s at the positions in keep, in order
Keep(s, keep) ==
    LET numbered == [i \in 1..Len(s) |-> <<i, s[i]>>]
        kept == SelectSeq(numbered, LAMBDA p : p[1] \in keep)
    IN  [k \in 1..Len(kept) |-> kept[k][2]]

\* str::trim: from the first to the last character that is not whitespace
Trim(s) ==
    LET solid == {i \in 1..Len(s) : ~IsWhite(s[i])} IN
    IF solid = {} THEN <<>>
    ELSE SubSeq(s, Nth(solid, 1), Nth(solid, Cardinality(solid)))

\* str::split(ch): the pieces between the occurrences of ch, always at
\* least one piece
SplitOn(s, ch) ==
    LET at == {i \in 1..Len(s) : s[i] = ch}
        n == Cardinality(at)
        from(k) == IF k = 1 THEN 1 ELSE Nth(at, k - 1) + 1
        to(k) == IF k = n + 1 THEN Len(s) ELSE Nth(at, k) - 1
    IN  [k \in 1..(n + 1) |-> SubSeq(s, from(k), to(k))]

\* position of the first ch in s, 0 when there is none
IndexOf(s, ch) ==
    LET at == {i \in 1..Len(s) : s[i] = ch} IN
    IF at = {} THEN 0 ELSE Nth(at, 1)

\* str::splitn(2, ch): one piece without ch, else the text before and after
\* the first ch
SplitN2(s, ch) ==
    LET k == IndexOf(s, ch) IN
    IF k = 0 THEN <<s>>
    ELSE <<SubSeq(s, 1, k - 1), SubSeq(s, k + 1, Len(s))>>

\* position i of s starts a backslash-newline pair
BsNlAt(s, i) == i < Len(s) /\ s[i] = BS /\ s[i + 1] = NL

\* str::replace("\\\n", "\n"): the backslash of every backslash-newline
\* pair goes, the newline stays (two pairs cannot overlap)
ReplaceBsNl(s) == Keep(s, {i \in 1..Len(s) : ~BsNlAt(s, i)})

RECURSIVE SeqsUpTo(_, _)
\* all sequences over S of length at most n
SeqsUpTo(S, n) ==
    IF n = 0 THEN {<<>>}
    ELSE LET shorter == SeqsUpTo(S, n - 1) IN
         shorter \cup {Append(t, c) : t \in shorter, c \in S}

---------------------------------------------------------------------------
(* The shlex crate: quote and split *)

RECURSIVE QuoteBody(_)
\* the inside of a single-quoted word: each ' becomes '\''
QuoteBody(s) ==
    IF s = <<>> THEN <<>>
    ELSE IF s[1] = SQ THEN <<SQ, BS, SQ, SQ>> \o QuoteBody(Tail(s))
    ELSE <<s[1]>> \o QuoteBody(Tail(s))

\* shlex::quote: POSIX single-quote rules; the empty string is ''
ShlexQuote(s) == <<SQ>> \o QuoteBody(s) \o <<SQ>>

\* The tokenizer reads one character. A scan state holds mode: "ws"
\* (between words), "comment", "word", "single", "double", "word_esc" and
\* "double_esc" (after a backslash), the word being built and the words
\* finished.
ShlexStep(st, c) ==
    LET go(m) == [st EXCEPT !.mode = m]
        push(m, cs) == [st EXCEPT !.mode = m, !.cur = @ \o cs]
        start == [st EXCEPT !.cur = <<>>]
        word(w) ==
            IF c = DQ THEN [w EXCEPT !.mode = "double"]
            ELSE IF c = SQ THEN [w EXCEPT !.mode = "single"]
            ELSE IF c = BS THEN [w EXCEPT !.mode = "word_esc"]
            ELSE IF c \in {SP, NL}
                THEN [mode |-> "ws", cur |-> <<>>, acc |-> Append(w.acc, w.cur)]
            ELSE [w EXCEPT !.mode = "word", !.cur = Append(@, c)]
    IN
    CASE st.mode = "ws" ->
           IF c \in {SP, NL} THEN st
           ELSE IF c = HASH THEN go("comment")
           ELSE word(start)
      [] st.mode = "comment" -> IF c = NL THEN go("ws") ELSE st
      [] st.mode = "word" -> word(st)
      [] st.mode = "word_esc" ->
           IF c = NL THEN go("word") ELSE push("word", <<c>>)
      [] st.mode = "single" ->
           IF c = SQ THEN go("word") ELSE push("single", <<c>>)
      [] st.mode = "double" ->
           IF c = DQ THEN go("word")
           ELSE IF c = BS THEN go("double_esc")
           ELSE push("double", <<c>>)
      [] st.mode = "double_esc" ->
           IF c \in {DOLLAR, BQ, DQ, BS} THEN push("double", <<c>>)
           ELSE IF c = NL THEN go("double")
           ELSE push("double", <<BS, c>>)

RECURSIVE ShlexScan(_, _, _, _)
\* the scan state after the characters lo..hi of s, read in order
ShlexScan(s, lo, hi, st) ==
    IF lo > hi THEN st
    ELSE IF lo = hi THEN ShlexStep(st, s[lo])
    ELSE LET mid == (lo + hi) \div 2
             left == ShlexScan(s, lo, mid, st)
         IN  \* the test makes TLC finish the left half before it enters
             \* the right half; a mode is never ""
             IF left.mode # "" THEN ShlexScan(s, mid + 1, hi, left) ELSE left

\* shlex::split: Option<Vec<String>>, None (<<>>) on an unterminated quote
\* or a trailing lone backslash
ShlexSplit(s) ==
    LET end == ShlexScan(s, 1, Len(s),
                         [mode |-> "ws", cur |-> <<>>, acc |-> <<>>])
    IN  CASE end.mode \in {"ws", "comment"} -> <<end.acc>>
          [] end.mode = "word" -> <<Append(end.acc, end.cur)>>
          [] OTHER -> <<>>

---------------------------------------------------------------------------
(* Argument renderer *)

\* CommandArg constructors
Empty == [tag |-> "Empty", text |-> <<>>, list |-> <<>>]
Literal(s) == [tag |-> "Literal", text |-> s, list |-> <<>>]
Raw(s) == [tag |-> "Raw", text |-> s, list |-> <<>>]
List(xs) == [tag |-> "List", text |-> <<>>, list |-> xs]

\* a broken shell_quote: the value goes out as it is
ShellQuoteVerbatim(v) == v

\* fn shell_quote
shell_quote(v) == ShlexQuote(v)

\* impl fmt::Display for CommandArg
Display(a) ==
    CASE a.tag = "Empty" -> <<>>
      [] a.tag = "Literal" -> shell_quote(a.text)
      [] a.tag = "Raw" -> a.text
      [] a.tag = "List" ->
           Join([i \in 1..Len(a.list) |-> shell_quote(a.list[i])], <<SP>>)

---------------------------------------------------------------------------
(* Binary-safe quoting of paths: bash_binary_quote and From<&Path> *)

\* A byte is a number in 0..255; a path is a sequence of bytes.

\* the characters of the bytes 0x20..0x7e, in order
Printable ==
    << SP, "!", DQ, HASH, DOLLAR, "%", "&", SQ, "(", ")", "*", "+", ",",
       "-", ".", "/", "0", "1", "2", "3", "4", "5", "6", "7", "8", "9",
       ":", ";", "<", EQC, ">", "?", "@", "A", "B", "C", "D", "E", "F",
       "G", "H", "I", "J", "K", "L", "M", "N", "O", "P", "Q", "R", "S",
       "T", "U", "V", "W", "X", "Y", "Z", "[", BS, "]", "^", "_", BQ, "a",
       "b", "c", "d", "e", "f", "g", "h", "i", "j", "k", "l", "m", "n",
       "o", "p", "q", "r", "s", "t", "u", "v", "w", "x", "y", "z", "{",
       "|", "}", "~" >>

TAB == "\t"
CR == "\r"
\* the character of the byte 0, which a TLA+ string cannot hold
NUL == "<nul>"

IsPrintable(c) == c >= 32 /\ c <= 126

\* the hexadecimal digits std::ascii::escape_default writes
HexDigits ==
    << "0", "1", "2", "3", "4", "5", "6", "7", "8", "9",
       "a", "b", "c", "d", "e", "f" >>

\* an escape_default that escapes only what is not printable
EscapeHexOnly(c) ==
    IF IsPrintable(c) THEN <<Printable[c - 31]>>
    ELSE <<BS, "x", HexDigits[(c \div 16) + 1], HexDigits[(c % 16) + 1]>>

\* std::ascii::escape_default
escape_default(c) ==
    CASE c = 9 -> <<BS, "t">>
      [] c = 13 -> <<BS, "r">>
      [] c = 10 -> <<BS, "n">>
      [] c = 39 -> <<BS, SQ>>
      [] c = 34 -> <<BS, DQ>>
      [] c = 92 -> <<BS, BS>>
      [] OTHER ->
           IF IsPrintable(c) THEN <<Printable[c - 31]>>
           ELSE <<BS, "x", HexDigits[(c \div 16) + 1],
                  HexDigits[(c % 16) + 1]>>

\* a bash_binary_quote that leaves the quote and the backslash as they are
BashQuoteHexOnly(bytes) ==
    <<DOLLAR, SQ>>
        \o Concat([i \in 1..Len(bytes) |-> EscapeHexOnly(bytes[i])])
        \o <<SQ>>

\* fn bash_binary_quote
bash_binary_quote(bytes) ==
    <<DOLLAR, SQ>>
        \o Concat([i \in 1..Len(bytes) |-> escape_default(bytes[i])])
        \o <<SQ>>

\* Path::to_str is Some: std::str::from_utf8 accepts the bytes.  A byte of
\* 0x80 or more is valid only after a lead byte (0xC2..0xF4), and the bytes
\* of the model (ByteAlphabet) hold no lead byte.
IsUtf8(bytes) == \A i \in 1..Len(bytes) : bytes[i] < 128

\* the character of an ASCII byte
CharOf(c) ==
    CASE IsPrintable(c) -> Printable[c - 31]
      [] c = 0 -> NUL
      [] c = 9 -> TAB
      [] c = 10 -> NL
      [] c = 13 -> CR

\* impl From<&Path> for CommandArg
FromPath(bytes) ==
    IF IsUtf8(bytes) THEN Literal([i \in 1..Len(bytes) |-> CharOf(bytes[i])])
    ELSE Raw(bash_binary_quote(bytes))

---------------------------------------------------------------------------
(* ANSI-C quoting: how a shell reads $'...' *)

\* the hexadecimal digits a shell accepts after \x
UpperHexDigits == << "A", "B", "C", "D", "E", "F" >>

IsHexDigit(c) ==
    \/ \E i \in 1..16 : HexDigits[i] = c
    \/ \E i \in 1..6 : UpperHexDigits[i] = c

HexVal(c) ==
    IF \E i \in 1..16 : HexDigits[i] = c
    THEN (CHOOSE i \in 1..16 : HexDigits[i] = c) - 1
    ELSE (CHOOSE i \in 1..6 : UpperHexDigits[i] = c) + 9

\* the byte of a character that stands for itself
ByteOf(c) ==
    CASE \E i \in 1..95 : Printable[i] = c ->
           (CHOOSE i \in 1..95 : Printable[i] = c) + 31
      [] c = NUL -> 0
      [] c = TAB -> 9
      [] c = NL -> 10
      [] c = CR -> 13

\* the one-letter escapes and the bytes they stand for
SimpleEscapes ==
    { <<"a", 7>>, <<"b", 8>>, <<"e", 27>>, <<"E", 27>>, <<"f", 12>>,
      <<"n", 10>>, <<"r", 13>>, <<"t", 9>>, <<"v", 11>>, <<BS, 92>>,
      <<SQ, 39>>, <<DQ, 34>>, <<"?", 63>> }

\* the escapes with a numeric or control argument other than \x, which no
\* escape_default output holds: the scan stops at them
OtherEscapes == {"0", "1", "2", "3", "4", "5", "6", "7", "u", "U", "c"}

\* one character read inside the quotes, outside an escape
AnsiCBody(bytes, c) ==
    IF c = BS THEN [mode |-> "esc", bytes |-> bytes, hex |-> 0]
    ELSE IF c = SQ THEN [mode |-> "closed", bytes |-> bytes, hex |-> 0]
    ELSE [mode |-> "body", bytes |-> Append(bytes, ByteOf(c)), hex |-> 0]

\* one character of the scan of $'...'.  The modes: "dollar" and "open"
\* before the quotes, "body" inside, "esc" after a backslash, "hex1" and
\* "hex2" after \x and after its first digit, "closed" after the closing
\* quote, "trail" when text follows the closing quote.
AnsiCStep(st, c) ==
    LET body(bs) == [mode |-> "body", bytes |-> bs, hex |-> 0]
        stop(m) == [mode |-> m, bytes |-> st.bytes, hex |-> 0]
    IN
    CASE st.mode = "dollar" -> IF c = DOLLAR THEN stop("open") ELSE stop("bad")
      [] st.mode = "open" -> IF c = SQ THEN stop("body") ELSE stop("bad")
      [] st.mode = "body" -> AnsiCBody(st.bytes, c)
      [] st.mode = "esc" ->
           IF c = "x" THEN stop("hex1")
           ELSE IF \E e \in SimpleEscapes : e[1] = c
           THEN body(Append(st.bytes,
                            (CHOOSE e \in SimpleEscapes : e[1] = c)[2]))
           ELSE IF c \in OtherEscapes THEN stop("unmodelled")
           ELSE body(st.bytes \o <<92, ByteOf(c)>>)
      [] st.mode = "hex1" ->
           IF IsHexDigit(c)
           THEN [mode |-> "hex2", bytes |-> st.bytes, hex |-> HexVal(c)]
           ELSE AnsiCBody(st.bytes \o <<92, 120>>, c)
      [] st.mode = "hex2" ->
           IF IsHexDigit(c)
           THEN body(Append(st.bytes, st.hex * 16 + HexVal(c)))
           ELSE AnsiCBody(Append(st.bytes, st.hex), c)
      [] st.mode = "closed" -> stop("trail")
      [] OTHER -> st

RECURSIVE AnsiCScan(_, _, _, _)
\* the scan state after the characters lo..hi of s, read in order
AnsiCScan(s, lo, hi, st) ==
    IF lo > hi THEN st
    ELSE IF lo = hi THEN AnsiCStep(st, s[lo])
    ELSE LET mid == (lo + hi) \div 2
             left == AnsiCScan(s, lo, mid, st)
         IN  \* the test makes TLC finish the left half before it enters
             \* the right half; a mode is never ""
             IF left.mode # "" THEN AnsiCScan(s, mid + 1, hi, left) ELSE left

NoWord == [whole |-> FALSE, bytes |-> <<>>]

\* the word a shell reads from s: whole when s is one $'...' literal from
\* its first character to its last, and then the bytes the literal stands for
AnsiCDecode(s) ==
    LET end == AnsiCScan(s, 1, Len(s),
                         [mode |-> "dollar", bytes |-> <<>>, hex |-> 0])
    IN  [whole |-> end.mode = "closed", bytes |-> end.bytes]

---------------------------------------------------------------------------
(* Script-spec parser: commandify / impl_commandify *)

\* the Err messages of commandify
ErrCdNotFirst == "cd should be the first line in your command! macro."
ErrCdArgs == "Too many arguments in cd; expected 1"
ErrExportOrder == "exports should follow cd but precede your command"
ErrExportArgs == "Not enough arguments in export; expected at least 1"
ErrExportFormat == "Expected export of the format NAME=VALUE"
ErrNoCommand == "Didn't find a command in your command! macro."
\* the panics
PanicExpect == "Command string couldn't be parsed by shlex"
PanicRemove == "removal index (is 0) should be < len (is 0)"
PanicUnwrap == "called Result::unwrap() on an Err value"

NoResult == [kind |-> "None", msg |-> ""]
Ok == [kind |-> "Ok", msg |-> ""]
Err(m) == [kind |-> "Err", msg |-> m]
Panic(m) == [kind |-> "Panic", msg |-> m]

CdTok == <<"c", "d">>
ExportTok == <<"e", "x", "p", "o", "r", "t">>

\* value.trim().split('\n')
SplitLines(v) == SplitOn(Trim(v), NL)

\* shlex::split(&raw_line).unwrap_or_default()
LineTokens(raw_line) ==
    LET r == ShlexSplit(raw_line) IN IF r = <<>> THEN <<>> ELSE r[1]

\* line.get(0): <<>> for None, <<tok>> for Some
FirstToken(raw_line) ==
    LET line == LineTokens(raw_line) IN
    IF line = <<>> THEN <<>> ELSE <<line[1]>>

\* a parser state: the loop's locals, and err: "" or the Err returned
PState(st, c, e, cl, er) ==
    [state |-> st, cd |-> c, env |-> e, command_lines |-> cl, err |-> er]

\* a broken cd arm: no check that cd comes first
CdArmAnywhere(ps, line) ==
    IF Len(line) # 2 THEN [ps EXCEPT !.err = ErrCdArgs]
    ELSE [ps EXCEPT !.cd = <<line[2]>>, !.state = "Env"]

\* the Some("cd") arm
CdArm(ps, line) ==
    IF ps.state # "Cd" THEN [ps EXCEPT !.err = ErrCdNotFirst]
    ELSE IF Len(line) # 2 THEN [ps EXCEPT !.err = ErrCdArgs]
    ELSE [ps EXCEPT !.cd = <<line[2]>>, !.state = "Env"]

RECURSIVE ExportItems(_, _)
\* for item in &line[1..] { ... }: the first item that fails ends the
\* parse; items[1] of a one-piece split would be out of range
ExportItems(ps, rest) ==
    IF rest = <<>> THEN ps
    ELSE LET items == SplitN2(rest[1], EQC) IN
         IF Len(items) > 0 THEN [ps EXCEPT !.err = ErrExportFormat]
         ELSE ExportItems(
                  [ps EXCEPT !.env = @ \cup {<<items[1], items[2]>>}],
                  Tail(rest))

\* the Some("export") arm
ExportArm(ps, line) ==
    IF ps.state # "Cd" /\ ps.state # "Env"
        THEN [ps EXCEPT !.err = ErrExportOrder]
    ELSE IF Len(line) >= 2 THEN [ps EXCEPT !.err = ErrExportArgs]
    ELSE LET after == ExportItems(ps, Tail(line)) IN
         IF after.err # "" THEN after ELSE [after EXCEPT !.state = "Env"]

\* a broken loop body: the lines after the command are matched like the
\* lines before it
LineStepMatchAlways(ps, raw_line) ==
    LET line == LineTokens(raw_line) IN
    IF Trim(raw_line) = <<>> THEN ps
    ELSE IF line # <<>> /\ line[1] = CdTok THEN CdArm(ps, line)
    ELSE IF line # <<>> /\ line[1] = ExportTok THEN ExportArm(ps, line)
    ELSE [ps EXCEPT !.command_lines = Append(@, raw_line), !.state = "Cmd"]

\* one iteration of `for raw_line in lines`
LineStep(ps, raw_line) ==
    LET line == LineTokens(raw_line) IN
    IF ps.state = "Cmd"
        THEN [ps EXCEPT !.command_lines = Append(@, raw_line)]
    ELSE IF Trim(raw_line) = <<>> THEN ps
    ELSE IF line # <<>> /\ line[1] = CdTok THEN CdArm(ps, line)
    ELSE IF line # <<>> /\ line[1] = ExportTok THEN ExportArm(ps, line)
    ELSE [ps EXCEPT !.command_lines = Append(@, raw_line), !.state = "Cmd"]

\* a broken end-of-loop check: nothing is ever missing
NoCommandNever(st, cl) == FALSE

\* state != SpecState::Cmd || command_lines.is_empty()
NoCommand(st, cl) == st # "Cmd" \/ cl = <<>>

\* command_lines.join("\n").replace("\\\n", "\n")
command_string(cl) == ReplaceBsNl(Join(cl, <<NL>>))

\* the end of commandify after the loop: the Err, the panic, or the
\* CommandSpec handed to to_command
Assemble(st, c, e, cl) ==
    IF NoCommand(st, cl) THEN [res |-> Err(ErrNoCommand), spec |-> <<>>]
    ELSE LET cmd == ShlexSplit(command_string(cl)) IN
         IF cmd = <<>> THEN [res |-> Panic(PanicExpect), spec |-> <<>>]
         ELSE IF cmd[1] = <<>> THEN [res |-> Panic(PanicRemove), spec |-> <<>>]
         ELSE [res |-> NoResult,
               spec |-> <<[binary |-> cmd[1][1], args |-> Tail(cmd[1]),
                           env |-> e, cd |-> c]>>]

---------------------------------------------------------------------------
(* Process-descriptor builder and execution wrapper *)

\* CommandSpec::to_command on a platform that is not Windows; canon_ok is
\* whether canonicalize_path(cd) returns Ok
to_command(sp, canon_ok) ==
    IF sp.cd # <<>> /\ ~canon_ok
        THEN [res |-> Panic(PanicUnwrap), command |-> <<>>]
    ELSE [res |-> Ok,
          command |-> <<[program |-> sp.binary, args |-> sp.args,
                         cwd |-> IF sp.cd # <<>>
                                 THEN <<"canonical", sp.cd[1]>>
                                 ELSE <<"current_dir">>,
                         env |-> sp.env]>>]

\* exit codes a child is let to leave with
ExitCodes == {0, 1, 42}

\* what can become of the child: it cannot be created, it runs to an exit
\* code, or it ends by a signal and has no exit code
ChildFates ==
    {[kind |-> "SpawnFailed", code |-> -1], [kind |-> "Signaled", code |-> -1]}
    \cup {[kind |-> "Exited", code |-> c] : c \in ExitCodes}

NoOutcome == [kind |-> "None", code |-> -1]

\* internal_sh_inline_execute: every failure is one I/O error
ExecuteNoCode(ch) ==
    IF ch.kind = "Exited" /\ ch.code = 0 THEN [kind |-> "Ok", code |-> -1]
    ELSE [kind |-> "Io", code |-> -1]

\* CommandSpecExt::execute: the match on self.output()
execute(ch) ==
    IF ch.kind = "SpawnFailed" THEN [kind |-> "Io", code |-> -1]
    ELSE IF ch.kind = "Exited" /\ ch.code = 0 THEN [kind |-> "Ok", code |-> -1]
    ELSE IF ch.kind = "Exited" THEN [kind |-> "Code", code |-> ch.code]
    ELSE [kind |-> "Interrupt", code |-> -1]

---------------------------------------------------------------------------
(* Inputs *)

\* the characters of rendered strings
Alphabet == {"a", SP, SQ, DQ, DOLLAR, BQ, BS, NL}

\* the characters of the elements of rendered lists
ElemAlphabet == {"a", SP, SQ, NL}

RenderArgs ==
    {Literal(s) : s \in SeqsUpTo(Alphabet, MaxStrLen)}
    \cup {List(xs) : xs \in SeqsUpTo(SeqsUpTo(ElemAlphabet, MaxElemLen), MaxListLen)}

\* the lines spec texts are made of
LinePool ==
    { <<>>,
      <<SP>>,
      <<"c", "d", SP, "/", "t", "m", "p">>,
      <<"c", "d">>,
      <<"e", "x", "p", "o", "r", "t", SP, "A", "=", "h", "e", "l", "l", "o">>,
      <<"e", "x", "p", "o", "r", "t">>,
      <<"e", "x", "p", "o", "r", "t", SP, "F", "O", "O">>,
      <<"e", "x", "p", "o", "r", "t", SP, "F", "O", "O", "=", "1", SP,
        "B", "A", "R", "=", "2">>,
      <<"e", "c", "h", "o", SP, DOLLAR, "A">>,
      <<"e", "c", "h", "o", SP, "f", "o", "o", SP, BS>>,
      <<"b", "a", "r">>,
      <<"e", "c", BS>>,
      <<HASH, SP, "c">>,
      <<SQ, "x">>,
      <<SQ, SQ>> }

SpecTexts == {Join(ls, <<NL>>) : ls \in SeqsUpTo(LinePool, MaxLines)}

\* the bytes of paths: NUL, newline, ! " ' \ a, and two bytes (0x80, 0xFF)
\* that no UTF-8 text holds on their own
ByteAlphabet == {0, 10, 33, 34, 39, 92, 97, 128, 255}

\* the path of the test sh_path_binary
BinaryTestPath == <<33, 0, 255, 34, 97>>

Paths == SeqsUpTo(ByteAlphabet, MaxPathLen) \cup {BinaryTestPath}

\* a template with one placeholder: the text before and after it
Templates ==
    { [pre |-> <<"b", "i", "n", SP>>, post |-> <<>>],
      [pre |-> <<NL, SP, SP, "b", "i", "n", SP>>, post |-> <<NL, SP, SP>>],
      [pre |-> <<"c", "d", SP, "/", "t", "m", "p", NL, "b", "i", "n", SP>>,
       post |-> <<NL>>] }

\* format!(template, v = command_arg(&value))
Format(t, a) == t.pre \o Display(a) \o t.post

---------------------------------------------------------------------------
(* The state machine *)

NoArg == Empty
NoTemplate == [pre |-> <<>>, post |-> <<>>]

ParserIdle ==
    /\ lines = <<>>
    /\ idx = 1
    /\ state = "Cd"
    /\ cd = <<>>
    /\ env = {}
    /\ command_lines = <<>>
    /\ spec = <<>>
    /\ result = NoResult
    /\ command = <<>>
    /\ fs = "unread"
    /\ child = NoOutcome
    /\ spawns = 0
    /\ outcome = NoOutcome

\* a spec text handed to commandify
Init ==
    /\ pc = "start"
    /\ value \in SpecTexts
    /\ path = <<>>
    /\ shell_word = NoWord
    /\ arg = NoArg
    /\ template = NoTemplate
    /\ rendered = <<>>
    /\ tokens = <<>>
    /\ ParserIdle

\* a CommandArg about to be rendered
InitRender ==
    /\ pc = "render"
    /\ arg \in RenderArgs
    /\ path = <<>>
    /\ shell_word = NoWord
    /\ template = NoTemplate
    /\ rendered = <<>>
    /\ tokens = <<>>
    /\ value = <<>>
    /\ ParserIdle

\* a CommandArg about to be interpolated into a template
InitInterp ==
    /\ pc = "format"
    /\ arg \in RenderArgs
    /\ path = <<>>
    /\ shell_word = NoWord
    /\ template \in Templates
    /\ rendered = <<>>
    /\ tokens = <<>>
    /\ value = <<>>
    /\ ParserIdle

\* a Path about to be turned into a CommandArg
InitPath ==
    /\ pc = "path"
    /\ path \in Paths
    /\ shell_word = NoWord
    /\ arg = NoArg
    /\ template = NoTemplate
    /\ rendered = <<>>
    /\ tokens = <<>>
    /\ value = <<>>
    /\ ParserIdle

\* CommandArg::from(path)
Convert ==
    /\ pc = "path"
    /\ arg' = FromPath(path)
    /\ pc' = "render"
    /\ UNCHANGED <<path, shell_word, template, rendered, tokens, value, lines,
                   idx, state, cd, env, command_lines, spec, result, command,
                   fs, child, spawns, outcome>>

\* write!(f, "{}", ...) of the Display impl
Render ==
    /\ pc = "render"
    /\ rendered' = Display(arg)
    /\ pc' = "tokenize"
    /\ UNCHANGED <<path, shell_word, arg, template, tokens, value, lines, idx,
                   state, cd, env, command_lines, spec, result, command, fs,
                   child, spawns, outcome>>

\* shlex::split of the rendered text
Tokenize ==
    /\ pc = "tokenize"
    /\ tokens' = ShlexSplit(rendered)
    /\ pc' = "tokenized"
    /\ UNCHANGED <<path, shell_word, arg, template, rendered, value, lines,
                   idx, state, cd, env, command_lines, spec, result, command,
                   fs, child, spawns, outcome>>

\* a shell reads the rendered Raw argument as a word
Decode ==
    /\ pc = "tokenize"
    /\ arg.tag = "Raw"
    /\ shell_word' = AnsiCDecode(rendered)
    /\ pc' = "decoded"
    /\ UNCHANGED <<path, arg, template, rendered, tokens, value, lines, idx,
                   state, cd, env, command_lines, spec, result, command, fs,
                   child, spawns, outcome>>

\* the command! macro: format! of the template with the rendered argument
Interpolate ==
    /\ pc = "format"
    /\ rendered' = Display(arg)
    /\ value' = Format(template, arg)
    /\ pc' = "start"
    /\ UNCHANGED <<path, shell_word, arg, template, tokens, lines, idx, state,
                   cd, env, command_lines, spec, result, command, fs, child,
                   spawns, outcome>>

\* commandify up to the loop
Start ==
    /\ pc = "start"
    /\ lines' = SplitLines(value)
    /\ idx' = 1
    /\ state' = "Cd"
    /\ cd' = <<>>
    /\ env' = {}
    /\ command_lines' = <<>>
    /\ pc' = "loop"
    /\ UNCHANGED <<path, shell_word, arg, template, rendered, tokens, value,
                   spec, result, command, fs, child, spawns, outcome>>

\* one iteration of the loop over the lines
Loop ==
    /\ pc = "loop"
    /\ idx <= Len(lines)
    /\ LET ps == LineStep(PState(state, cd, env, command_lines, ""), lines[idx]) IN
       IF ps.err # ""
       THEN /\ result' = Err(ps.err)
            /\ pc' = "returned"
            /\ UNCHANGED <<idx, state, cd, env, command_lines>>
       ELSE /\ state' = ps.state
            /\ cd' = ps.cd
            /\ env' = ps.env
            /\ command_lines' = ps.command_lines
            /\ idx' = idx + 1
            /\ UNCHANGED <<result, pc>>
    /\ UNCHANGED <<path, shell_word, arg, template, rendered, tokens, value,
                   lines, spec, command, fs, child, spawns, outcome>>

\* commandify after the loop, up to the call of to_command
Finish ==
    /\ pc = "loop"
    /\ idx > Len(lines)
    /\ LET a == Assemble(state, cd, env, command_lines) IN
       IF a.spec = <<>>
       THEN /\ result' = a.res
            /\ pc' = "returned"
            /\ UNCHANGED spec
       ELSE /\ spec' = a.spec
            /\ pc' = "build"
            /\ UNCHANGED result
    /\ UNCHANGED <<path, shell_word, arg, template, rendered, tokens, value,
                   lines, idx, state, cd, env, command_lines, command, fs,
                   child, spawns, outcome>>

\* Ok(spec.to_command()); the file system decides whether cd resolves
Build ==
    /\ pc = "build"
    /\ \E canon_ok \in BOOLEAN :
         /\ fs' = IF spec[1].cd = <<>> THEN fs
                  ELSE IF canon_ok THEN "resolves" ELSE "fails"
         /\ LET b == to_command(spec[1], canon_ok) IN
            /\ result' = b.res
            /\ command' = b.command
            /\ pc' = IF b.res.kind = "Ok" THEN "built" ELSE "returned"
    /\ UNCHANGED <<path, shell_word, arg, template, rendered, tokens, value,
                   lines, idx, state, cd, env, command_lines, spec, child,
                   spawns, outcome>>

\* command.execute(); the operating system decides the child's fate
Run ==
    /\ pc = "built"
    /\ \E ch \in ChildFates :
         /\ child' = ch
         /\ outcome' = execute(ch)
    /\ spawns' = spawns + 1
    /\ pc' = "done"
    /\ UNCHANGED <<path, shell_word, arg, template, rendered, tokens, value,
                   lines, idx, state, cd, env, command_lines, spec, result,
                   command, fs>>

Next == Start \/ Loop \/ Finish \/ Build \/ Run

Spec == Init /\ [][Next]_vars

NextRender == Render \/ Tokenize

SpecRender == InitRender /\ [][NextRender]_vars

NextPath == Convert \/ Render \/ Tokenize \/ Decode

SpecPath == InitPath /\ [][NextPath]_vars

NextInterp == Interpolate \/ Start \/ Loop \/ Finish \/ Build

SpecInterp == InitInterp /\ [][NextInterp]_vars

---------------------------------------------------------------------------
(* Claims *)

\* the words a rendered argument stands for: the one string of a Literal,
\* the elements of a List
Intended(a) == IF a.tag = "Literal" THEN <<a.text>> ELSE a.list

\* C1: tokenizing the rendered form of Literal(s) gives exactly the one
\* token s, and tokenizing the rendered form of List(xs) gives exactly xs
\* (no token for the empty list).
C1_RoundTripQuoting ==
    pc = "tokenized" => tokens = <<Intended(arg)>>

\* C1 witness: a two-element list holding a quote character and an empty
\* string has been rendered and tokenized back
C1_Witness ==
    /\ pc = "tokenized"
    /\ arg = List(<<<<SQ>>, <<>>>>)
    /\ rendered = <<SQ, SQ, BS, SQ, SQ, SQ, SP, SQ, SQ>>
    /\ tokens = <<arg.list>>

\* C2: a value rendered into the command body `bin {v}` comes out of the
\* parse as exactly the intended words: the one string of a Literal, the
\* elements of a List, after the binary bin.
C2_ArgumentFidelity ==
    pc \in {"build", "built", "returned"} =>
        /\ spec # <<>>
        /\ spec[1].binary = <<"b", "i", "n">>
        /\ spec[1].args = Intended(arg)

\* commandify has just returned to its caller, or has panicked
ParseReturned == pc \in {"returned", "built"}

\* the line the loop is about to look at, before the command body
AtPreambleLine ==
    pc = "loop" /\ idx <= Len(lines) /\ state \in {"Cd", "Env"}

\* raw_line is `export NAME=VALUE`: one token after export, holding an =
IsExportBinding(raw_line) ==
    LET t == LineTokens(raw_line) IN
    /\ Len(t) = 2
    /\ t[1] = ExportTok
    /\ IndexOf(t[2], EQC) > 0

\* the <<NAME, VALUE>> of such a line
BindingOf(raw_line) ==
    LET t == LineTokens(raw_line)
        k == IndexOf(t[2], EQC)
    IN  <<SubSeq(t[2], 1, k - 1), SubSeq(t[2], k + 1, Len(t[2]))>>

\* C3: from ExpectCd or ExpectEnvOrCmd a line `export NAME=VALUE` is
\* accepted, records NAME -> VALUE in env and leaves the parser in
\* ExpectEnvOrCmd.
C3_ExportAccepted ==
    [][(AtPreambleLine /\ IsExportBinding(lines[idx])) =>
          /\ pc' = "loop"
          /\ idx' = idx + 1
          /\ state' = "Env"
          /\ BindingOf(lines[idx]) \in env'
          /\ result' = NoResult]_vars

\* raw_line is an export line with no argument, more than one, or one
\* without an =
IsMalformedExport(raw_line) ==
    LET t == LineTokens(raw_line) IN
    /\ t # <<>>
    /\ t[1] = ExportTok
    /\ \/ Len(t) # 2
       \/ IndexOf(t[2], EQC) = 0

\* C4: before the command body, an export line with zero arguments, with
\* more than one, or whose argument has no =, ends the parse with a
\* ParseError; no binding is recorded and no descriptor is produced.
C4_ExportValidation ==
    [][(AtPreambleLine /\ IsMalformedExport(lines[idx])) =>
          /\ pc' = "returned"
          /\ result'.kind = "Err"
          /\ env' = env
          /\ spec' = <<>>
          /\ command' = <<>>]_vars

IsBlankLine(raw_line) == Trim(raw_line) = <<>>

\* raw_line is not blank and its first token is tok
StartsWith(raw_line, tok) ==
    ~IsBlankLine(raw_line) /\ FirstToken(raw_line) = <<tok>>

\* line i starts with cd and is not the first non-blank line
CdAfterFirstLine(i) ==
    /\ StartsWith(lines[i], CdTok)
    /\ \E j \in 1..(i - 1) : ~IsBlankLine(lines[j])

\* line i starts with cd, is not the first non-blank line, and every
\* non-blank line before it is a cd or an export line: the command body has
\* not started
CdInPreamble(i) ==
    /\ CdAfterFirstLine(i)
    /\ \A j \in 1..(i - 1) :
          \/ IsBlankLine(lines[j])
          \/ StartsWith(lines[j], CdTok)
          \/ StartsWith(lines[j], ExportTok)

\* C5 as stated: a cd line anywhere after the first non-blank line, also
\* after the command body has started, makes the parse fail.
C5_CdAnywhereRejected ==
    (ParseReturned /\ \E i \in 1..Len(lines) : CdAfterFirstLine(i))
        => result.kind # "Ok"

\* C5 amended: a cd line after the first non-blank line and before the
\* command body has started (after an earlier cd or an export line) makes
\* the parse fail with a ParseError.
C5_CdInPreambleRejected ==
    (ParseReturned /\ \E i \in 1..Len(lines) : CdInPreamble(i))
        => /\ result.kind = "Err"
           /\ spec = <<>>
           /\ command = <<>>

\* C5 witness: a second line cd, after an accepted export line, has been
\* rejected as not being first
C5_Witness ==
    /\ ParseReturned
    /\ lines = <<ExportTok, <<"c", "d", SP, "/", "t", "m", "p">>>>
    /\ idx = 2
    /\ state = "Env"
    /\ result = Err(ErrCdNotFirst)

\* C6: a parse that produces no descriptor returns a ParseError; it does
\* not panic.
C6_ParseFailureIsErr ==
    (pc = "returned" /\ spec = <<>>) => result.kind = "Err"

\* s with every backslash-newline pair deleted
DeleteBsNl(s) ==
    Keep(s, {i \in 1..Len(s) : ~BsNlAt(s, i) /\ ~(i > 1 /\ BsNlAt(s, i - 1))})

\* C7: the body tokenizes exactly as the joined body lines with each
\* backslash-newline pair deleted.
C7_ContinuationDeleted ==
    spec # <<>> =>
        ShlexSplit(DeleteBsNl(Join(command_lines, <<NL>>)))
            = <<(<<spec[1].binary>> \o spec[1].args)>>

\* C8: when cd is set and cannot be canonicalized, building the descriptor
\* returns an error to the caller and starts no process.
C8_ResolutionErrorReturned ==
    fs = "fails" =>
        /\ result.kind = "Err"
        /\ command = <<>>
        /\ spawns = 0

C10_MissingCommand ==
    /\ (ParseReturned /\ idx > Len(lines) /\ state # "Cmd") =>
          /\ result = Err(ErrNoCommand)
          /\ spec = <<>>
          /\ command = <<>>
    /\ (ParseReturned /\ \A i \in 1..Len(lines) :
                            \/ IsBlankLine(lines[i])
                            \/ StartsWith(lines[i], CdTok)
                            \/ StartsWith(lines[i], ExportTok)) =>
          /\ result.kind = "Err"
          /\ spec = <<>>
          /\ command = <<>>

\* C10 witness: the text `cd /tmp` alone has been read to its end, cd
\* recorded, and rejected for want of a command
C10_Witness ==
    /\ ParseReturned
    /\ lines = <<<<"c", "d", SP, "/", "t", "m", "p">>>>
    /\ idx = 2
    /\ cd = <<<<"/", "t", "m", "p">>>>
    /\ result = Err(ErrNoCommand)

\* C11: a path whose bytes are not valid text is rendered as a Raw argument
\* that is one ANSI-C literal, $' ... ', written in printable ASCII only, and
\* reading that literal by the ANSI-C quoting rules gives back exactly the
\* bytes of the path, as one whole word: the closing quote is the last
\* character of the rendering and nothing before it ends the quoting.
C11_BinaryRoundTrip ==
    (pc \in {"tokenize", "tokenized", "decoded"} /\ ~IsUtf8(path)) =>
        /\ arg.tag = "Raw"
        /\ rendered = arg.text
        /\ Len(rendered) >= 3
        /\ rendered[1] = DOLLAR /\ rendered[2] = SQ
        /\ rendered[Len(rendered)] = SQ
        /\ \A i \in 1..Len(rendered) :
              \E k \in 1..95 : Printable[k] = rendered[i]
        /\ pc = "decoded" => shell_word = [whole |-> TRUE, bytes |-> path]

\* the path of sh_path_binary has been rendered and read back
C11_Witness ==
    /\ pc = "decoded"
    /\ path = BinaryTestPath
    /\ rendered = <<DOLLAR, SQ, "!", BS, "x", "0", "0", BS, "x", "f", "f",
                    BS, DQ, "a", SQ>>
    /\ shell_word.whole
    /\ shell_word.bytes = path

\* the order of the parser states: Cd (ExpectCd), Env (ExpectEnvOrCmd),
\* Cmd (InCommand)
StateRank(st) == CASE st = "Cd" -> 0 [] st = "Env" -> 1 [] st = "Cmd" -> 2

\* C12: the parser state never moves back along Cd -> Env -> Cmd; Cmd is
\* terminal; and while the parser is in Cmd every line the loop looks at,
\* blank or not and whatever its first token, is appended as it is to the
\* end of the command body, the loop goes on to the next line, and cd, env
\* and the result are left as they were.
C12_StateProgression ==
    [][ /\ StateRank(state') >= StateRank(state)
        /\ state = "Cmd" => state' = "Cmd"
        /\ (pc = "loop" /\ idx <= Len(lines) /\ state = "Cmd") =>
              /\ command_lines' = Append(command_lines, lines[idx])
              /\ idx' = idx + 1
              /\ pc' = "loop"
              /\ cd' = cd
              /\ env' = env
              /\ result' = result ]_vars

\* the loop has gone through a command line, a blank line and a cd line:
\* all three are in the command body and no cd is recorded
C12_Witness ==
    /\ pc = "loop"
    /\ state = "Cmd"
    /\ idx = 4
    /\ lines[1] = <<"e", "c", "h", "o", SP, DOLLAR, "A">>
    /\ lines[2] = <<>>
    /\ lines[3] = <<"c", "d", SP, "/", "t", "m", "p">>
    /\ command_lines = lines
    /\ cd = <<>>
    /\ env = {}

\* C13: the CommandSpec of every successful parse has a non-empty binary,
\* whatever the spec text, a command body whose first token is the empty
\* quoted word included.
C13_BinaryNonEmpty == spec # <<>> => spec[1].binary # <<>>

====
